---- MODULE Spec2Model ----
(***************************************************************************)
(* Model of the budget extraction pipeline of cmat (src/backend.py):       *)
(* the AI extraction client with its credential rotation and provider      *)
(* fallback, the tolerant JSON parsing of a model reply, the keyword       *)
(* number extractor, the merge of both results and the graph projector.    *)
(*                                                                         *)
(* Text is modelled character by character: a Python str is a TLA+ string, *)
(* read with Len, SubSeq and \o.  A JSON / Python value is a tagged record *)
(*   [t |-> "null"]                   None / null                          *)
(*   [t |-> "int",   v |-> n]         an int                               *)
(*   [t |-> "float", v |-> u]         a float, u its value in units of     *)
(*                                    10^-Decimals                         *)
(*   [t |-> "str",   v |-> s]         a str                                *)
(*   [t |-> "obj",   v |-> f]         a dict, f a function on its keys     *)
(*   [t |-> "list",  v |-> q]         a list, q a sequence                 *)
(*   [t |-> "raise", v |-> e]         the evaluation raised exception e    *)
(***************************************************************************)
EXTENDS Integers, Sequences, FiniteSets, TLC

\* ------------------------------------------------------------------ bounds

\* Fractional digits a modelled float keeps; inputs carry at most this many.
Decimals == 1

RECURSIVE Pow10(_)
Pow10(n) == IF n = 0 THEN 1 ELSE 10 * Pow10(n - 1)

Scale == Pow10(Decimals)

\* ------------------------------------------------------------------ values

Null == [t |-> "null"]
IntV(n) == [t |-> "int", v |-> n]
FloatV(u) == [t |-> "float", v |-> u]
StrV(s) == [t |-> "str", v |-> s]
Obj(f) == [t |-> "obj", v |-> f]
List(q) == [t |-> "list", v |-> q]
Raise(e) == [t |-> "raise", v |-> e]

EmptyObj == Obj(<<>>)

IsNum(x) == x.t \in {"int", "float"}

\* The numeric value of an int or a float, in units of 10^-Decimals.
Units(x) == IF x.t = "int" THEN x.v * Scale ELSE x.v

\* dict item assignment d[k] = val (a later assignment to the same key wins).
Put(f, k, val) == [x \in (DOMAIN f) \cup {k} |-> IF x = k THEN val ELSE f[x]]

\* ------------------------------------------------------------------ characters

\* The slice of s from index i to index j (1-based, inclusive), cut to the
\* indices s has, as a Python slice is.
Slice(s, i, j) ==
    IF i > j \/ i > Len(s) \/ j < 1 THEN ""
    ELSE SubSeq(s, IF i < 1 THEN 1 ELSE i, IF j > Len(s) THEN Len(s) ELSE j)

\* The character of s at index i ("" outside s).
At(s, i) == Slice(s, i, i)

Digits == {"0", "1", "2", "3", "4", "5", "6", "7", "8", "9"}

DigitVal(c) == CASE c = "0" -> 0 [] c = "1" -> 1 [] c = "2" -> 2 [] c = "3" -> 3
                 [] c = "4" -> 4 [] c = "5" -> 5 [] c = "6" -> 6 [] c = "7" -> 7
                 [] c = "8" -> 8 [] c = "9" -> 9

IsDigit(c) == c \in Digits

\* \s of the re module, over the characters a modelled text holds.
SpaceChars == {" ", "\n", "\t", "\r"}

IsSpace(c) == c \in SpaceChars

UpperChars == "ABCDEFGHIJKLMNOPQRSTUVWXYZ"
LowerChars == "abcdefghijklmnopqrstuvwxyz"

\* The searches and the character-wise rewrites below split the range in two
\* halves, so the depth of their recursion is the logarithm of the length.

RECURSIVE FirstIn(_, _, _, _)
\* The least index in lo..hi of s whose character is in cs, 0 when there is none.
FirstIn(s, cs, lo, hi) ==
    IF lo > hi THEN 0
    ELSE IF lo = hi THEN (IF At(s, lo) \in cs THEN lo ELSE 0)
    ELSE LET Else(l) == IF l # 0 THEN l ELSE FirstIn(s, cs, ((lo + hi) \div 2) + 1, hi)
         IN Else(FirstIn(s, cs, lo, (lo + hi) \div 2))

RECURSIVE FirstNotIn(_, _, _, _)
\* The least index in lo..hi of s whose character is not in cs, 0 when there is none.
FirstNotIn(s, cs, lo, hi) ==
    IF lo > hi THEN 0
    ELSE IF lo = hi THEN (IF At(s, lo) \notin cs THEN lo ELSE 0)
    ELSE LET Else(l) == IF l # 0 THEN l ELSE FirstNotIn(s, cs, ((lo + hi) \div 2) + 1, hi)
         IN Else(FirstNotIn(s, cs, lo, (lo + hi) \div 2))

RECURSIVE LastIn(_, _, _, _)
\* The greatest index in lo..hi of s whose character is in cs, 0 when there is none.
LastIn(s, cs, lo, hi) ==
    IF lo > hi THEN 0
    ELSE IF lo = hi THEN (IF At(s, lo) \in cs THEN lo ELSE 0)
    ELSE LET Else(r) == IF r # 0 THEN r ELSE LastIn(s, cs, lo, (lo + hi) \div 2)
         IN Else(LastIn(s, cs, ((lo + hi) \div 2) + 1, hi))

RECURSIVE FirstMatch(_, _, _, _)
\* The least index in lo..hi at which sub starts in s, 0 when there is none.
FirstMatch(s, sub, lo, hi) ==
    IF lo > hi THEN 0
    ELSE IF lo = hi THEN (IF Slice(s, lo, lo + Len(sub) - 1) = sub THEN lo ELSE 0)
    ELSE LET Else(l) == IF l # 0 THEN l ELSE FirstMatch(s, sub, ((lo + hi) \div 2) + 1, hi)
         IN Else(FirstMatch(s, sub, lo, (lo + hi) \div 2))

\* The least index >= i at which character c stands in s, 0 when there is none.
IndexIn(s, c, i) == FirstIn(s, {c}, i, Len(s))

\* str.find(sub, from): the least index >= from at which sub starts in s, else 0.
Find(s, sub, from) == FirstMatch(s, sub, from, Len(s) - Len(sub) + 1)

\* str.rfind(c) for one character, searched downwards from index i; 0 when absent.
RFindChar(s, c, i) == LastIn(s, {c}, 1, i)

\* the Python test: sub in s
Contains(s, sub) == Find(s, sub, 1) # 0

\* The index after the run of characters of cs that starts at index i of s.
RunEnd(s, cs, i) ==
    LET End(k) == IF k = 0 THEN Len(s) + 1 ELSE k
    IN IF i > Len(s) THEN i ELSE End(FirstNotIn(s, cs, i, Len(s)))

\* The character that stands in string to at the place c has in string from
\* (c itself when it is not in from).
MapChar(c, from, to) ==
    LET Image(k) == IF k = 0 THEN c ELSE At(to, k) IN Image(IndexIn(from, c, 1))

LowerChar(c) == MapChar(c, UpperChars, LowerChars)
UpperChar(c) == MapChar(c, LowerChars, UpperChars)

RECURSIVE Lower(_)
\* str.lower()
Lower(s) ==
    IF Len(s) <= 1 THEN LowerChar(s)
    ELSE Lower(Slice(s, 1, Len(s) \div 2)) \o Lower(Slice(s, (Len(s) \div 2) + 1, Len(s)))

\* str.capitalize(): first character upper-cased, the rest lower-cased.
Capitalize(s) == IF s = "" THEN "" ELSE UpperChar(Head(s)) \o Lower(Tail(s))

RECURSIVE Keep(_, _)
\* re.sub of every character outside the set cs by "".
Keep(s, cs) ==
    IF s = "" THEN ""
    ELSE IF Len(s) = 1 THEN (IF s \in cs THEN s ELSE "")
    ELSE Keep(Slice(s, 1, Len(s) \div 2), cs) \o Keep(Slice(s, (Len(s) \div 2) + 1, Len(s)), cs)

\* The occurrences of character c in s.
Count(s, c) == Cardinality({k \in 1..Len(s) : At(s, k) = c})

RECURSIVE DigitsValue(_, _)
\* The number a run of decimal digits denotes, acc the value read so far.
DigitsValue(s, acc) ==
    IF s = "" THEN acc ELSE DigitsValue(Tail(s), 10 * acc + DigitVal(Head(s)))

\* ------------------------------------------------------------------ float()

\* The first n characters of s, padded with "0" on the right up to n.
PadRight(s, n) == IF Len(s) >= n THEN Slice(s, 1, n) ELSE s \o Slice("000000000000", 1, n - Len(s))

\* float() of digits ip, a point and digits fp: ValueError with no digit at all.
\* The value keeps Decimals fractional digits.
FloatOfParts(ip, fp) ==
    IF Len(ip) + Len(fp) = 0 THEN Raise("ValueError")
    ELSE FloatV(DigitsValue(ip, 0) * Scale + DigitsValue(PadRight(fp, Decimals), 0))

\* float() of a string without sign whose first point is at index dot (0: none):
\* digits with at most one point.
FloatOfBody(body, dot) ==
    IF Keep(body, Digits \cup {"."}) # body \/ Count(body, ".") > 1 THEN Raise("ValueError")
    ELSE IF dot = 0 THEN FloatOfParts(body, "")
    ELSE FloatOfParts(Slice(body, 1, dot - 1), Slice(body, dot + 1, Len(body)))

FloatUnsigned(body) == FloatOfBody(body, IndexIn(body, ".", 1))

Negated(f) == IF f.t = "raise" THEN f ELSE FloatV(0 - f.v)

\* Python float(s) for a string of the characters 0-9 . - : an optional leading
\* minus, digits with at most one point and at least one digit; anything else
\* raises ValueError.
PyFloat(s) ==
    IF s # "" /\ Head(s) = "-" THEN Negated(FloatUnsigned(Tail(s))) ELSE FloatUnsigned(s)

\* The float, or None when float() raised.
FloatOrNone(f) == IF f.t = "raise" THEN Null ELSE f

\* ------------------------------------------------------------------ json.loads

\* The first index >= i of s that holds no JSON whitespace (Len(s) + 1 at the end).
SkipWs(s, i) == RunEnd(s, SpaceChars, i)

\* The index after the run of digits of s that starts at i.
DigitRunEnd(s, i) == RunEnd(s, Digits, i)

Fail == [ok |-> FALSE]
Parsed(val, next) == [ok |-> TRUE, val |-> val, next |-> next]

\* A JSON string without escapes, s[i] being its opening quote.
ParseString(s, i) ==
    LET Body(body, next) ==
            IF Contains(body, "\\") \/ Contains(body, "\n") THEN Fail ELSE Parsed(StrV(body), next)
        Close(close) == IF close = 0 THEN Fail ELSE Body(Slice(s, i + 1, close - 1), close + 1)
    IN Close(IndexIn(s, "\"", i + 1))

\* A JSON number -?digits(.digits)? (no exponent) that starts at index i: an
\* int without a fraction, a float with one.  i0 is the index of its first digit.
ParseNumber(s, i) ==
    LET Fraction(i1, i2) ==
            IF i2 = i1 + 1 THEN Fail ELSE Parsed(PyFloat(Slice(s, i, i2 - 1)), i2)
        Integer(i0, i1) ==
            IF i1 = i0 \/ (i1 > i0 + 1 /\ At(s, i0) = "0") THEN Fail
            ELSE IF At(s, i1) = "." THEN Fraction(i1, DigitRunEnd(s, i1 + 1))
            ELSE Parsed(IntV((IF i0 > i THEN 0 - 1 ELSE 1) * DigitsValue(Slice(s, i0, i1 - 1), 0)), i1)
        From(i0) == Integer(i0, DigitRunEnd(s, i0))
    IN From(IF At(s, i) = "-" THEN i + 1 ELSE i)

RECURSIVE ParseValue(_, _)
RECURSIVE ParseMembers(_, _, _)
RECURSIVE ParseElements(_, _, _)

\* The members of an object from index i on (i at a key), acc the dict so far;
\* a repeated key keeps its last value.
ParseMembers(s, i, acc) ==
    LET Closer(e, acc2) ==
            IF At(s, e) = "}" THEN Parsed(Obj(acc2), e + 1)
            ELSE IF At(s, e) = "," THEN ParseMembers(s, SkipWs(s, e + 1), acc2)
            ELSE Fail
        Value(k, v) == IF ~v.ok THEN Fail ELSE Closer(SkipWs(s, v.next), Put(acc, k, v.val))
        Colon(k, c) == IF At(s, c) # ":" THEN Fail ELSE Value(k, ParseValue(s, SkipWs(s, c + 1)))
        Key(k) == IF ~k.ok THEN Fail ELSE Colon(k.val.v, SkipWs(s, k.next))
    IN IF At(s, i) # "\"" THEN Fail ELSE Key(ParseString(s, i))

\* The elements of an array from index i on, acc the list so far.
ParseElements(s, i, acc) ==
    LET Closer(e, acc2) ==
            IF At(s, e) = "]" THEN Parsed(List(acc2), e + 1)
            ELSE IF At(s, e) = "," THEN ParseElements(s, SkipWs(s, e + 1), acc2)
            ELSE Fail
        Value(v) == IF ~v.ok THEN Fail ELSE Closer(SkipWs(s, v.next), Append(acc, v.val))
    IN Value(ParseValue(s, i))

\* One JSON value starting at index i (no whitespace before it).
ParseValue(s, i) ==
    LET Object(j) == IF At(s, j) = "}" THEN Parsed(EmptyObj, j + 1) ELSE ParseMembers(s, j, <<>>)
        Array(j) == IF At(s, j) = "]" THEN Parsed(List(<<>>), j + 1) ELSE ParseElements(s, j, <<>>)
        Start(c) ==
            CASE c = "{" -> Object(SkipWs(s, i + 1))
              [] c = "[" -> Array(SkipWs(s, i + 1))
              [] c = "\"" -> ParseString(s, i)
              [] c = "-" \/ IsDigit(c) -> ParseNumber(s, i)
              [] c = "n" /\ Slice(s, i, i + 3) = "null" -> Parsed(Null, i + 4)
              [] OTHER -> Fail
    IN Start(At(s, i))

\* json.loads(s): the value, or raise JSONDecodeError when s is not one JSON
\* document.  Modelled: objects, arrays, strings without escapes, numbers without
\* exponent, null.
JsonLoads(s) ==
    LET Document(r) ==
            IF r.ok /\ SkipWs(s, r.next) = Len(s) + 1 THEN r.val ELSE Raise("JSONDecodeError")
    IN Document(ParseValue(s, SkipWs(s, 1)))

\* ------------------------------------------------------------------ _extract_json_from_text

RECURSIVE RemoveAll(_, _)
\* re.sub(sub, "", s) for a literal sub: every occurrence, left to right.
RemoveAll(s, sub) ==
    LET Cut(p) ==
            IF p = 0 THEN s
            ELSE Slice(s, 1, p - 1) \o RemoveAll(Slice(s, p + Len(sub), Len(s)), sub)
    IN Cut(Find(s, sub, 1))

RECURSIVE DropCommaBefore(_, _)
\* re.sub(",\s*<closer>", "<closer>", s): a comma followed by optional
\* whitespace and the closer gives way to the closer alone.
DropCommaBefore(s, closer) ==
    LET After(p, j) ==
            IF At(s, j) = closer
            THEN Slice(s, 1, p - 1) \o closer \o DropCommaBefore(Slice(s, j + 1, Len(s)), closer)
            ELSE Slice(s, 1, p) \o DropCommaBefore(Slice(s, p + 1, Len(s)), closer)
        Comma(p) == IF p = 0 THEN s ELSE After(p, SkipWs(s, p + 1))
    IN Comma(IndexIn(s, ",", 1))

\* The code fence marker.  A TLA+ string cannot hold a backquote: the model
\* writes ~ for that character, in the replies and in the marker alike.
Fence == "~~~"

\* The minor fixes of the second parse: code fences and trailing commas removed.
RepairCandidate(candidate) ==
    DropCommaBefore(DropCommaBefore(RemoveAll(RemoveAll(candidate, Fence \o "json"), Fence), "}"), "]")

\* _extract_json_from_text(s): the JSON value of the span from the first "{" to
\* the last "}" of s, parsed as it stands or after the minor fixes; None (Null)
\* when s is empty, holds no such span, or neither parse succeeds.
extract_json_from_text(s) ==
    LET Second(v) == IF v.t = "raise" THEN Null ELSE v
        First(candidate, v) ==
            IF v.t = "raise" THEN Second(JsonLoads(RepairCandidate(candidate))) ELSE v
        Candidate(candidate) == First(candidate, JsonLoads(candidate))
        Span(start, end) ==
            IF start = 0 \/ end = 0 \/ end <= start THEN Null ELSE Candidate(Slice(s, start, end))
    IN IF s = "" THEN Null ELSE Span(IndexIn(s, "{", 1), RFindChar(s, "}", Len(s)))

\* Python truthiness of a value (if parsed, if v).
Truthy(x) ==
    CASE x.t = "null" -> FALSE
      [] x.t \in {"int", "float"} -> x.v # 0
      [] x.t = "str" -> x.v # ""
      [] x.t = "obj" -> DOMAIN x.v # {}
      [] x.t = "list" -> Len(x.v) > 0

\* ------------------------------------------------------------------ numeric cleaning

\* float() of the str as it is, no character removed first.
NotStripped(val) ==
    CASE val.t = "null" -> Null
      [] val.t \in {"int", "float"} -> FloatV(Units(val))
      [] val.t = "str" -> FloatOrNone(PyFloat(val.v))
      [] OTHER -> Null

\* clean_numeric_value(val): None for None, the equal float for an int or a
\* float, for a str the float of what is left of it once every character other
\* than a digit, "." and "-" is removed (None when that is no number), None for
\* anything else.
clean_numeric_value(val) ==
    CASE val.t = "null" -> Null
      [] val.t \in {"int", "float"} -> FloatV(Units(val))
      [] val.t = "str" -> FloatOrNone(PyFloat(Keep(val.v, Digits \cup {".", "-"})))
      [] OTHER -> Null

\* The object handed on as it is, nothing cleaned.
NotCleaned(obj) == obj

RECURSIVE clean_recursive(_)
\* _clean_recursive(obj): the same structure with every scalar leaf cleaned.
clean_recursive(obj) ==
    CASE obj.t = "null" -> Null
      [] obj.t \in {"int", "float"} -> FloatV(Units(obj))
      [] obj.t = "str" -> clean_numeric_value(obj)
      [] obj.t = "obj" -> Obj([k \in DOMAIN obj.v |-> clean_recursive(obj.v[k])])
      [] obj.t = "list" -> List([i \in 1..Len(obj.v) |-> clean_recursive(obj.v[i])])
      [] OTHER -> obj

\* ------------------------------------------------------------------ extract_numbers_from_text

NumChars == Digits \cup {",", "."}

NoMatch == [m |-> FALSE]
Match(g) == [m |-> TRUE, g |-> g]

\* re.search(key + "[^0-9]*([\d,\.]+)", s): group 1 of the leftmost match, as
\* Match(group), or NoMatch.  The greedy [^0-9]* runs up to the first digit
\* after the key and the group is the run of digits, commas and points from
\* there; with no digit after the key it backtracks to the last comma or point,
\* which is then the whole group.
KeywordSearch(s, key) ==
    LET Backtrack(q) == IF q = 0 THEN NoMatch ELSE Match(At(s, q))
        Group(e, d) ==
            IF d # 0 THEN Match(Slice(s, d, RunEnd(s, NumChars, d) - 1))
            ELSE Backtrack(LastIn(s, {",", "."}, e, Len(s)))
        After(e) == Group(e, FirstIn(s, Digits, e, Len(s)))
        Key(p) == IF p = 0 THEN NoMatch ELSE After(p + Len(key))
    IN Key(Find(s, key, 1))

\* The value extract_numbers_from_text stores for a matched group: float of the
\* group without its commas, None when that raises ValueError.
KeywordValue(g) == FloatOrNone(PyFloat(RemoveAll(g, ",")))

Range(q) == {q[i] : i \in 1..Len(q)}

\* extract_numbers_from_text(text, keywords): for every keyword that matches in
\* the lower-cased text, its number; a dict filled in the order of keywords.
extract_numbers_from_text(text, keywords) ==
    LET Results(found) ==
            [k \in {x \in DOMAIN found : found[x].m} |-> KeywordValue(found[k].g)]
        Searches(clean_text) ==
            Results([k \in Range(keywords) |-> KeywordSearch(clean_text, k)])
    IN IF text = "" THEN <<>> ELSE Searches(Lower(text))

\* ------------------------------------------------------------------ extract_combined_budget_info

\* The keywords extract_combined_budget_info passes to the keyword extractor.
Keywords ==
    << "total budget",
       "total public investment in climate initiatives",
       "percentage of national budget allocated to climate adaptation",
       "private sector investment mobilized",
       "adaptation", "mitigation", "energy", "agriculture", "health", "transport", "water" >>

\* The keyword -> label table, in the order the code walks it.
mapping ==
    << <<"total", "Total Budget">>, <<"adaptation", "Adaptation">>,
       <<"mitigation", "Mitigation">>, <<"public", "Public">>,
       <<"energy", "Sectors">>, <<"agriculture", "Sectors">>, <<"health", "Sectors">>,
       <<"transport", "Sectors">>, <<"water", "Sectors">> >>

RECURSIVE Strip(_)
\* str.strip()
Strip(s) ==
    IF s = "" THEN ""
    ELSE IF IsSpace(Head(s)) THEN Strip(Tail(s))
    ELSE IF IsSpace(At(s, Len(s))) THEN Strip(Slice(s, 1, Len(s) - 1))
    ELSE s

RECURSIVE FirstMapping(_, _)
\* The index of the first entry of mapping whose keyword is in clean_key (the
\* loop that ends with break), 0 when no entry is.
FirstMapping(clean_key, i) ==
    IF i > Len(mapping) THEN 0
    ELSE IF Contains(clean_key, mapping[i][1]) THEN i
    ELSE FirstMapping(clean_key, i + 1)

\* merged.setdefault("Sectors", {})
SetDefaultSectors(merged) ==
    IF "Sectors" \in DOMAIN merged.v THEN merged ELSE Obj(Put(merged.v, "Sectors", EmptyObj))

\* merged["Sectors"][key] = val: TypeError when merged["Sectors"] is no dict.
AssignSector(merged, key, val) ==
    IF merged.v["Sectors"].t = "obj"
    THEN Obj(Put(merged.v, "Sectors", Obj(Put(merged.v["Sectors"].v, key, val))))
    ELSE Raise("TypeError")

\* SectorWrite with the keyword left as it is, not capitalised.
SectorWriteRaw(merged, kw, v) ==
    AssignSector(SetDefaultSectors(merged), kw, clean_recursive(v))

\* The write of a sector number into the dict merged: merged gets a Sectors
\* dict when it has no such key, and the number is assigned under the
\* capitalised keyword, whatever stands there.
SectorWrite(merged, kw, v) ==
    AssignSector(SetDefaultSectors(merged), Capitalize(kw), clean_recursive(v))

\* ScalarWrite without its guard: the number is written whatever stands under
\* the label.
ScalarWriteAlways(merged, label, v) == Obj(Put(merged.v, label, clean_recursive(v)))

\* The write of a top-level number into the dict merged: only when the label is
\* not in merged or its value there is None.
ScalarWrite(merged, label, v) ==
    IF label \notin DOMAIN merged.v \/ merged.v[label] = Null
    THEN Obj(Put(merged.v, label, clean_recursive(v)))
    ELSE merged

\* One turn of the loop over keyword_results: the key k with its value v.
MergeKeyword(merged, k, v) ==
    LET Entry(i) ==
            IF i = 0 THEN merged
            ELSE IF mapping[i][2] = "Sectors" THEN SectorWrite(merged, mapping[i][1], v)
            ELSE ScalarWrite(merged, mapping[i][2], v)
    IN Entry(FirstMapping(Strip(Lower(k)), 1))

RECURSIVE MergeFrom(_, _, _)
\* The loop over keyword_results (a dict filled in the order of Keywords) from
\* the i-th keyword on; the result is the final dict, or the raise that ended
\* the loop.
MergeFrom(merged, keyword_results, i) ==
    IF i > Len(Keywords) \/ merged.t = "raise" THEN merged
    ELSE IF Keywords[i] \notin DOMAIN keyword_results THEN MergeFrom(merged, keyword_results, i + 1)
    ELSE MergeFrom(MergeKeyword(merged, Keywords[i], keyword_results[Keywords[i]]),
                   keyword_results, i + 1)

\* The body of extract_combined_budget_info after the AI call: the keyword
\* extraction, the cleaned copy of the AI result and the loop over the keyword
\* results.  The record returned, or the exception raised.
MergeResults(ai_results, text) ==
    MergeFrom(Obj([k \in DOMAIN ai_results.v |-> clean_recursive(ai_results.v[k])]),
              extract_numbers_from_text(text, Keywords), 1)

\* ------------------------------------------------------------------ prepare_graph_data

\* a + b for ints and floats: an int when both are ints.
Plus(a, b) == IF a.t = "int" /\ b.t = "int" THEN IntV(a.v + b.v) ELSE FloatV(Units(a) + Units(b))

RECURSIVE SumFrom(_, _)
\* sum() of the numbers of sequence q from index i on.
SumFrom(q, i) == IF i > Len(q) THEN IntV(0) ELSE Plus(q[i], SumFrom(q, i + 1))

SumSeq(q) == SumFrom(q, 1)

RECURSIVE SeqOfSet(_)
\* The members of a finite set in some order.
SeqOfSet(S) ==
    IF S = {} THEN <<>>
    ELSE LET Rest(x) == <<x>> \o SeqOfSet(S \ {x}) IN Rest(CHOOSE y \in S : TRUE)

\* The values of a dict, as a sequence.
Values(f) == LET Of(ks) == [i \in 1..Len(ks) |-> f[ks[i]]] IN Of(SeqOfSet(DOMAIN f))

\* The numeric values of the project item p (a dict): what
\* sum(v for k, v in p.items() if isinstance(v, (int, float))) adds up.
Allocated(p) == SumSeq(SelectSeq(Values(p.v), IsNum))

\* The characters of a str, each a str.
Chars(s) == [i \in 1..Len(s) |-> StrV(At(s, i))]

\* The keys of a dict, each a str.
Keys(f) == LET Of(ks) == [i \in 1..Len(ks) |-> StrV(ks[i])] IN Of(SeqOfSet(DOMAIN f))

\* What the loops over projects iterate over: the items of a list, the keys of
\* a dict, the characters of a str; None or a number is not iterable (TypeError).
IterItems(projects) ==
    CASE projects.t = "list" -> projects
      [] projects.t = "obj" -> List(Keys(projects.v))
      [] projects.t = "str" -> List(Chars(projects.v))
      [] OTHER -> Raise("TypeError")

\* One row of graphs["projects"]: p["Programme"] raises TypeError when p is no
\* dict and KeyError when the dict has no such key.
ProjectRow(p) ==
    IF p.t # "obj" THEN Raise("TypeError")
    ELSE IF "Programme" \notin DOMAIN p.v THEN Raise("KeyError")
    ELSE Obj(("Programme" :> p.v["Programme"]) @@ ("Allocated" :> Allocated(p)))

\* The sum of the truthy values: a truthy value that is no number cannot be
\* added (TypeError).
SumTruthy(vals) ==
    IF \E i \in 1..Len(vals) : ~IsNum(vals[i]) THEN Raise("TypeError") ELSE SumSeq(vals)

\* sum(v for v in (sv or {}).values() if v) for sv = data.get("Sectors"): a
\* falsy sv counts as {}, a truthy one that is no dict has no values()
\* (AttributeError).
SectorTotal(sv) ==
    IF ~Truthy(sv) THEN IntV(0)
    ELSE IF sv.t # "obj" THEN Raise("AttributeError")
    ELSE SumTruthy(SelectSeq(Values(sv.v), Truthy))

\* max(a, 0) left out: the difference as it is.
NoMaxZero(a) == a

\* max(a, 0)
MaxZero(a) == IF a.v < 0 THEN IntV(0) ELSE a

\* a - b for ints and floats.
Minus(a, b) == IF a.t = "int" /\ b.t = "int" THEN IntV(a.v - b.v) ELSE FloatV(Units(a) - Units(b))

\* max(total_budget - (sector_total + projects_total), 0); the subtraction
\* raises TypeError when total_budget is no number.
Unallocated(total_budget, sector_total, projects_total) ==
    IF ~IsNum(total_budget) THEN Raise("TypeError")
    ELSE MaxZero(Minus(total_budget, Plus(sector_total, projects_total)))

\* The number item p holds for the year, 0 when it holds none.
YearValue(p, year) ==
    IF year \in DOMAIN p.v /\ IsNum(p.v[year]) THEN p.v[year] ELSE IntV(0)

\* The total of one year over the project items.
YearTotal(items, year) == SumSeq([i \in 1..Len(items) |-> YearValue(items[i], year)])

Category(name, total) == Obj(("Category" :> StrV(name)) @@ ("Total" :> total))
YearRow(y, total) == Obj(("Year" :> IntV(y)) @@ ("Total" :> total))

\* data.get(key, default)
Get(data, key, default) == IF key \in DOMAIN data.v THEN data.v[key] ELSE default

\* The first raise of a sequence of values, Null when none raised.
FirstRaise(q) ==
    LET Bad(S) == IF S = {} THEN Null ELSE q[CHOOSE i \in S : \A j \in S : i <= j]
    IN Bad({i \in 1..Len(q) : q[i].t = "raise"})

\* The three views for the project items, the rows of graphs["projects"] and
\* the budget figures (each a value or the raise of its computation).
Graphs(items, rows, rowRaise, sector_total, unallocated, projects_total) ==
    IF rowRaise # Null THEN rowRaise
    ELSE IF sector_total.t = "raise" THEN sector_total
    ELSE IF unallocated.t = "raise" THEN unallocated
    ELSE Obj(("projects" :> List(rows))
          @@ ("categories" :> List(<< Category("Sectors", sector_total),
                                      Category("Climate Projects", projects_total),
                                      Category("Unallocated", unallocated) >>))
          @@ ("yearly" :> List(<< YearRow(2022, YearTotal(items, "2022")),
                                  YearRow(2023, YearTotal(items, "2023")),
                                  YearRow(2024, YearTotal(items, "2024")) >>)))

\* prepare_graph_data(data): the three views, or the exception raised.
prepare_graph_data(data) ==
    LET Totals(items, rows, sector_total, projects_total) ==
            Graphs(items, rows, FirstRaise(rows), sector_total,
                   IF sector_total.t = "raise" THEN sector_total
                   ELSE Unallocated(Get(data, "Total Budget", IntV(0)), sector_total, projects_total),
                   projects_total)
        Rows(items, rows) ==
            IF FirstRaise(rows) # Null THEN FirstRaise(rows)
            ELSE Totals(items, rows, SectorTotal(Get(data, "Sectors", Null)),
                        SumSeq([i \in 1..Len(items) |-> Allocated(items[i])]))
        Items(iter) ==
            IF iter.t = "raise" THEN iter
            ELSE Rows(iter.v, [i \in 1..Len(iter.v) |-> ProjectRow(iter.v[i])])
    IN Items(IterItems(Get(data, "Climate Projects", List(<<>>))))

\* ------------------------------------------------------------------ extract_total_budget

\* What a tuple of Python values is here.
Tuple(q) == [t |-> "tuple", v |-> q]

\* [\d,]
CommaChars == Digits \cup {","}

NoMatchAt == [m |-> FALSE]
MatchAt(g, next) == [m |-> TRUE, g |-> g, next |-> next]

\* The leftmost match of Total[^0-9]*([\d,]+) under re.IGNORECASE that starts
\* at index from or later, low being the lower-cased text: its group 1 and the
\* index after the match.  The greedy [^0-9]* runs up to the first digit after
\* the word, and the group is the run of digits and commas from there; with no
\* digit after the word it backtracks to the last comma, which is the group.
TotalSearch(s, low, from) ==
    LET Backtrack(q) == IF q = 0 THEN NoMatchAt ELSE MatchAt(",", q + 1)
        Run(d, end) == MatchAt(Slice(s, d, end - 1), end)
        Group(e, d) ==
            IF d # 0 THEN Run(d, RunEnd(s, CommaChars, d))
            ELSE Backtrack(LastIn(s, {","}, e, Len(s)))
        After(e) == Group(e, FirstIn(s, Digits, e, Len(s)))
        Word(p) == IF p = 0 THEN NoMatchAt ELSE After(p + Len("total"))
    IN Word(Find(low, "total", from))

RECURSIVE TotalGroups(_, _, _)
\* pattern.findall(text): the groups of the matches, left to right, each match
\* searched from the end of the one before.
TotalGroups(s, low, from) ==
    LET Rest(m) == IF ~m.m THEN <<>> ELSE <<m.g>> \o TotalGroups(s, low, m.next)
    IN Rest(TotalSearch(s, low, from))

IsFloat(x) == x.t = "float"

\* The loop over the matches: float of each group without its commas, a group
\* that is no number (ValueError) skipped.
TotalNumbers(matches) ==
    SelectSeq([i \in 1..Len(matches) |-> FloatOrNone(PyFloat(RemoveAll(matches[i], ",")))],
              IsFloat)

\* The first of the numbers, None when there is none.
FirstOf(numbers) == IF numbers = <<>> THEN Null ELSE numbers[1]

\* max(numbers) if numbers else None
MaxOf(numbers) ==
    IF numbers = <<>> THEN Null
    ELSE CHOOSE x \in Range(numbers) : \A y \in Range(numbers) : y.v <= x.v

\* extract_total_budget(text)
extract_total_budget(txt) == MaxOf(TotalNumbers(TotalGroups(txt, Lower(txt), 1)))

\* ------------------------------------------------------------------ extract_agriculture_budget

\* [A-Za-z\s\-\(\)]
ProgrammeChars ==
    {At(UpperChars, i) : i \in 1..Len(UpperChars)} \cup {At(LowerChars, i) : i \in 1..Len(LowerChars)}
        \cup SpaceChars \cup {"-", "(", ")"}

\* A match of the table-row pattern: its four named groups and the index after it.
RowMatch(programme, budget2024, budget2023, budget2022, next) ==
    [m |-> TRUE, programme |-> programme, budget2024 |-> budget2024,
     budget2023 |-> budget2023, budget2022 |-> budget2022, next |-> next]

\* No match in a run of programme characters that ends before index next.
NoRowMatch(next) == [m |-> FALSE, next |-> next]

\* The match of
\*   (?P<programme>[A-Za-z\s\-\(\)]+)\s+\d+\s+(?P<budget2024>[\d,]+)\s+(?P<budget2023>[\d,]+)\s+(?P<budget2022>[\d,]+)
\* that starts at index i, the first of a run of programme characters that
\* ends before index j.  Whitespace is a programme character, so the greedy
\* programme group gives back the one whitespace \s+ needs and the code number
\* starts at j; every later group is a maximal run, and a run that is empty or
\* not followed by the whitespace the pattern asks for fails the match for
\* every start in the run.
RowAt(s, i, j) ==
    LET B2022(e1, f1, e2, f2, e3, f3) ==
            IF f3 = e3 THEN NoRowMatch(j)
            ELSE RowMatch(Slice(s, i, j - 2), Slice(s, e1, f1 - 1), Slice(s, e2, f2 - 1),
                          Slice(s, e3, f3 - 1), f3)
        Sep3(e1, f1, e2, f2, e3) ==
            IF e3 = f2 THEN NoRowMatch(j) ELSE B2022(e1, f1, e2, f2, e3, RunEnd(s, CommaChars, e3))
        B2023(e1, f1, e2, f2) ==
            IF f2 = e2 THEN NoRowMatch(j) ELSE Sep3(e1, f1, e2, f2, RunEnd(s, SpaceChars, f2))
        Sep2(e1, f1, e2) ==
            IF e2 = f1 THEN NoRowMatch(j) ELSE B2023(e1, f1, e2, RunEnd(s, CommaChars, e2))
        B2024(e1, f1) ==
            IF f1 = e1 THEN NoRowMatch(j) ELSE Sep2(e1, f1, RunEnd(s, SpaceChars, f1))
        Sep1(d, e1) ==
            IF e1 = d THEN NoRowMatch(j) ELSE B2024(e1, RunEnd(s, CommaChars, e1))
        Code(d) == IF d = j THEN NoRowMatch(j) ELSE Sep1(d, RunEnd(s, SpaceChars, d))
    IN IF j - 1 <= i \/ ~IsSpace(At(s, j - 1)) THEN NoRowMatch(j)
       ELSE Code(RunEnd(s, Digits, j))

RECURSIVE RowMatches(_, _)
\* pattern.finditer(text) from index from on: the matches, left to right.
RowMatches(s, from) ==
    LET Rest(m) ==
            IF m.m THEN <<m>> \o RowMatches(s, m.next) ELSE RowMatches(s, m.next)
        Start(i) == IF i = 0 THEN <<>> ELSE Rest(RowAt(s, i, RunEnd(s, ProgrammeChars, i)))
    IN Start(FirstIn(s, ProgrammeChars, from, Len(s)))

\* float(group.replace(",", ""))
GroupFloat(g) == PyFloat(RemoveAll(g, ","))

\* The row appended for a match with the stripped programme name prog.
AgricultureRow(prog, match) ==
    Obj(("Programme" :> StrV(prog)) @@ ("2024" :> GroupFloat(match.budget2024))
        @@ ("2023" :> GroupFloat(match.budget2023)) @@ ("2022" :> GroupFloat(match.budget2022)))

\* A test that takes every programme for agriculture.
AnyProgramme(prog) == TRUE

\* if "agric" in prog.lower()
IsAgriculture(prog) == Contains(Lower(prog), "agric")

\* The rows of the matches whose programme names agriculture.
AgricultureRows(matches) ==
    LET Named(progs) ==
            [i \in 1..Len(matches) |->
                IF IsAgriculture(progs[i]) THEN AgricultureRow(progs[i], matches[i]) ELSE Null]
    IN SelectSeq(Named([i \in 1..Len(matches) |-> Strip(matches[i].programme)]), Truthy)

\* A float() of the rows raised ValueError.
RowRaised(row) == \E k \in DOMAIN row.v : row.v[k].t = "raise"

\* df[[...]].sum(): the sum of a column of the rows, a float.
ColumnSum(rows, year) == FloatV(Units(SumSeq([i \in 1..Len(rows) |-> rows[i].v[year]])))

\* df[["2022", "2023", "2024"]].sum().to_dict()
ColumnTotals(rows) ==
    Obj(("2022" :> ColumnSum(rows, "2022")) @@ ("2023" :> ColumnSum(rows, "2023"))
        @@ ("2024" :> ColumnSum(rows, "2024")))

\* What the function returns for the rows built: (None, None) for no row, the
\* frame and its totals else; the ValueError of a float() goes on to the caller.
FrameAndTotals(rows) ==
    IF \E i \in 1..Len(rows) : RowRaised(rows[i]) THEN Raise("ValueError")
    ELSE IF rows = <<>> THEN Tuple(<<Null, Null>>)
    ELSE Tuple(<<List(rows), ColumnTotals(rows)>>)

\* extract_agriculture_budget(text)
extract_agriculture_budget(txt) == FrameAndTotals(AgricultureRows(RowMatches(txt, 1)))

\* ------------------------------------------------------------------ ai_extract_budget_info

\* len(API_KEYS): the credential slots of the primary provider, numbered from 0.
NumKeys == 2

\* A loop over the primary provider that runs one turn more than there are slots.
LoopBoundOneMore == NumKeys + 1

\* range(max(1, len(API_KEYS))): the turns of the loop over the primary provider.
LoopBound == IF NumKeys > 1 THEN NumKeys ELSE 1

\* get_client(): the cached client and the credential index after the call.
\* The body of its try is `return client`, which raises nothing, so the except
\* clause with the rotation never runs: both are returned as they were.
get_client(client, index) == [client |-> client, current_key_index |-> index]

\* The exceptions an attempt on the primary provider ends with: the two the
\* code rotates on, and a network error standing for every other one.
PrimaryExceptions == {"AuthenticationError", "RateLimitError", "APIConnectionError"}

\* Except clauses that continue on every exception.
PrimaryHandlerContinue(exc) == "continue"

\* The except clauses of the loop: continue on a rate limit or authentication
\* error, break on any other exception.
PrimaryHandler(exc) ==
    IF exc \in {"RateLimitError", "AuthenticationError"} THEN "continue" ELSE "break"

\* The end of a turn whose reply parsed to `parsed`: the parsed dict is
\* returned when it is truthy, else the loop continues.
PrimaryReplyFlow(parsed) == IF Truthy(parsed) THEN "return" ELSE "continue"

\* The exceptions the call of the secondary provider ends with: the post fails,
\* raise_for_status() raises, the body is no JSON, the body has no choices.
SecondaryExceptions == {"ConnectionError", "HTTPError", "JSONDecodeError", "IndexError"}

\* No except clause around the secondary provider: the exception goes on to the caller.
SecondaryReraise(exc) == Raise(exc)

\* The except clause around the secondary provider: {} for every exception.
SecondaryHandler(exc) == EmptyObj

\* reply or ""
OrEmpty(reply) == IF reply.t = "str" THEN reply.v ELSE ""

\* A secondary branch that drops a reply it cannot parse: {} in its place.
SecondaryResultDropped(reply) ==
    LET Of(parsed) == IF Truthy(parsed) THEN parsed ELSE EmptyObj
    IN Of(extract_json_from_text(OrEmpty(reply)))

\* What the secondary branch returns for the reply of the provider (a str, or
\* None for a null content): the parsed dict when it is truthy, else the reply
\* stored under raw_reply.
SecondaryResult(reply) ==
    LET Of(parsed) == IF Truthy(parsed) THEN parsed ELSE Obj("raw_reply" :> reply)
    IN Of(extract_json_from_text(OrEmpty(reply)))

\* ------------------------------------------------------------------ inputs

\* The reply contents a provider sends back (~ stands for a backquote).
Replies ==
    { "Sorry, I cannot read this document.",
      "{}",
      "{\"Total Budget\": 5000, \"Sectors\": {\"Energy\": 100, \"Water\": null}, \"Climate Projects\": [{\"Programme\": \"PIDACC Zambezi\", \"2024\": 123456, \"2023\": \"98,765\"}]}",
      "~~~json\n{\"Total Budget\": \"1,200.5\", \"Sectors\": {\"Energy\": null, \"Health\": \"N/A\"}, \"Adaptation\": 7,}\n~~~",
      "{\"Total Budget\": \"N/A\", \"Mitigation\": 3, \"Public\": 40}",
      "Here is the data: {\"Total Budget\": null, \"Sectors\": null, \"Adaptation\": \"n/a\"}" }

\* The document texts of the calls.
Texts ==
    { "",
      "Total Budget: 5,000",
      "Energy 1,200.5 Water 3",
      "Adaptation 7 mitigation 2.",
      "Total public investment in climate initiatives: 9 private sector investment mobilized 4",
      "Adaptation: 3. Percentage of national budget allocated to climate adaptation 12",
      "Total Budget: 5,000 Energy 700 Adaptation 3",
      "total budget, energy and health." }

\* ------------------------------------------------------------------ inputs of prepare_graph_data

\* The largest whole amount of a record and the most project items of one.
MaxAmount == 2
MaxProjects == 2

\* The numbers of a record: whole amounts as ints and as floats, and a half.
Amounts ==
    {IntV(a) : a \in 0..MaxAmount} \cup {FloatV(a * Scale) : a \in 1..MaxAmount}
        \cup {FloatV(Scale \div 2)}

\* A dict with the keys of `keys` drawn from `vals`: every choice.
Dicts(keys, vals) == UNION {[ks -> vals] : ks \in SUBSET keys}

\* The values of the key Total Budget.
TotalBudgets == Amounts \cup {Null}

\* The values of the key Sectors.
SectorMaps ==
    {Null} \cup {Obj(f) : f \in Dicts({"Energy", "Water"}, {IntV(0), IntV(MaxAmount), FloatV(Scale), Null})}

\* The items of Climate Projects: with and without the Programme key, with
\* some of the years, and with a year that holds no number.
ProjectItems ==
    { Obj(("Programme" :> StrV("PIDACC Zambezi")) @@ ("2024" :> IntV(MaxAmount))),
      Obj(("Programme" :> StrV("Cashew")) @@ ("2023" :> FloatV(Scale)) @@ ("2022" :> StrV("n/a"))),
      Obj(("Programme" :> StrV("Irrigation"))),
      Obj(("2024" :> IntV(1))) }

\* The values of the key Climate Projects.
ProjectLists ==
    {Null} \cup {List(q) : q \in UNION {[1..n -> ProjectItems] : n \in 0..MaxProjects}}

\* The records handed to prepare_graph_data: each of the three keys absent,
\* null or holding a value.
BudgetRecords ==
    { Obj(f) : f \in
        { t @@ sv @@ pr :
            t \in {<<>>} \cup {"Total Budget" :> x : x \in TotalBudgets},
            sv \in {<<>>} \cup {"Sectors" :> x : x \in SectorMaps},
            pr \in {<<>>} \cup {"Climate Projects" :> x : x \in ProjectLists} } }

\* ------------------------------------------------------------------ inputs of the table extractors

\* The most words of a generated text.
MaxWords == 3

\* The words texts are put together from: the word Total in two spellings,
\* numbers with and without commas and a fraction, a word, a lone comma.
Words == {"Total ", "total: ", "100 ", "900.5 ", "1,000 ", "Sub", ", "}

RECURSIVE WordTexts(_)
\* The texts of at most n words.
WordTexts(n) ==
    IF n = 0 THEN {""}
    ELSE LET More(shorter) == shorter \cup {t \o w : t \in shorter, w \in Words}
         IN More(WordTexts(n - 1))

\* Budget table texts: year columns separated by commas and by blanks, with
\* and without thousands separators, with more than one agriculture row.
TableTexts ==
    { "Energy 17 1000,500,400 Agriculture 18 2000,900,800 Total Budget: 5,000,000",
      "Energy 17 1000 500 400 Agriculture 18 2000 900 800 Total Budget: 5,000,000",
      "Agriculture 18 2,000 900 800\nAgric (Livestock) 19 1,000 100 200\nTotal 3,000 1,000 1,000",
      "Total 100 ... Total 900",
      "Agriculture 18 , 900 800" }

\* The texts handed to the table extractors.
DocTexts == WordTexts(MaxWords) \cup TableTexts

\* ------------------------------------------------------------------ the database

\* Python's True and False.
BoolV(b) == [t |-> "bool", v |-> b]

\* The rows of the users table the runs below find: row i has id i
\* (INTEGER PRIMARY KEY AUTOINCREMENT starts at 1) and a UNIQUE username.
UsersTable ==
    << [username |-> "mp1", role |-> "mp"],
       [username |-> "mp2", role |-> "mp"],
       [username |-> "admin", role |-> "admin"] >>

\* get_user_id(username): the id of the row with that username, None when
\* there is none.
get_user_id(username) ==
    LET Row(S) == IF S = {} THEN Null ELSE IntV(CHOOSE i \in S : TRUE)
    IN Row({i \in 1..Len(UsersTable) : UsersTable[i].username = username})

RECURSIVE FractionText(_, _)
\* The n decimal digits of the fraction f / 10^n.
FractionText(f, n) ==
    IF n = 0 THEN "" ELSE FractionText(f \div 10, n - 1) \o ToString(f % 10)

RECURSIVE StripZeros(_)
\* The digits without their trailing zeros, one digit at least.
StripZeros(s) ==
    IF Len(s) > 1 /\ Slice(s, Len(s), Len(s)) = "0"
    THEN StripZeros(Slice(s, 1, Len(s) - 1))
    ELSE s

\* The text SQLite makes of a REAL that goes into a TEXT column ("2.5", "5.0").
RealText(u) ==
    LET Abs(a) == ToString(a \div Scale) \o "." \o StripZeros(FractionText(a % Scale, Decimals))
    IN IF u < 0 THEN "-" \o Abs(0 - u) ELSE Abs(u)

\* What a bound parameter becomes in a TEXT column: None stays NULL, a str
\* stays, an int or a float is stored as its text; sqlite3 refuses to bind a
\* dict or a list (ProgrammingError).
Bind(val) ==
    CASE val.t = "null" -> Null
      [] val.t = "int" -> StrV(ToString(val.v))
      [] val.t = "float" -> StrV(RealText(val.v))
      [] val.t = "str" -> val
      [] OTHER -> Raise("ProgrammingError")

\* The rows left as they are.
KeepRows(rows, user_id) == rows

\* DELETE FROM survey_data WHERE user_id=?
DeleteRows(rows, user_id) == SelectSeq(rows, LAMBDA r : r.user_id # user_id)

\* The INSERTs of the loop over data.items(), one row per indicator.
InsertRows(rows, user_id, f) ==
    LET Of(ks) == [i \in 1..Len(ks) |->
                     [user_id |-> user_id, indicator |-> ks[i], value |-> Bind(f[ks[i]])]]
    IN rows \o Of(SeqOfSet(DOMAIN f))

\* save_survey_data(username, data) on the committed rows of survey_data;
\* locked says that a connection left open by an earlier raise still holds
\* the write lock of the database file.  What it returns or raises, the rows
\* committed afterwards, and whether this call left such a connection: a raise
\* after the DELETE leaves the connection unclosed and uncommitted, and its
\* changes are rolled back when the connection is collected.
save_survey_data(rows, locked, username, data) ==
    LET Known(user_id) ==
            CASE locked ->
                   [returned |-> Raise("OperationalError"), rows |-> rows, locked |-> locked]
              [] ~locked /\ data.t # "obj" ->
                   [returned |-> Raise("AttributeError"), rows |-> rows, locked |-> TRUE]
              [] ~locked /\ data.t = "obj"
                   /\ (\E k \in DOMAIN data.v : Bind(data.v[k]).t = "raise") ->
                   [returned |-> Raise("ProgrammingError"), rows |-> rows, locked |-> TRUE]
              [] OTHER ->
                   [returned |-> BoolV(TRUE),
                    rows |-> InsertRows(DeleteRows(rows, user_id), user_id, data.v),
                    locked |-> locked]
        Of(user_id) ==
            IF ~Truthy(user_id)
            THEN [returned |-> BoolV(FALSE), rows |-> rows, locked |-> locked]
            ELSE Known(user_id.v)
    IN Of(get_user_id(username))

\* get_survey_data(username): {} for an unknown user, else the dict of the
\* user's rows (a later row of the same indicator wins).
get_survey_data(rows, username) ==
    LET Dict(mine) ==
            Obj([k \in {mine[i].indicator : i \in 1..Len(mine)} |->
                   mine[CHOOSE i \in 1..Len(mine) :
                          /\ mine[i].indicator = k
                          /\ \A j \in 1..Len(mine) : mine[j].indicator = k => j <= i].value])
        Of(user_id) ==
            IF ~Truthy(user_id)
            THEN EmptyObj
            ELSE Dict(SelectSeq(rows, LAMBDA r : r.user_id = user_id.v))
    IN Of(get_user_id(username))

\* The row is the event whatever its owner.
AnyRow(r, event_id, user_id) == r.id = event_id

\* WHERE id=? AND user_id=?
OwnRow(r, event_id, user_id) == r.id = event_id /\ r.user_id = user_id

\* add_event(username, title, start, end) on the committed rows of events;
\* seq is the largest id AUTOINCREMENT has given out.  What it returns or
\* raises, the rows and seq afterwards.  A field sqlite3 cannot bind raises
\* before anything is written.
add_event(rows, seq, locked, username, title, start, end) ==
    LET Known(user_id) ==
            CASE \E f \in {title, start, end} : Bind(f).t = "raise" ->
                   [returned |-> Raise("ProgrammingError"), rows |-> rows, seq |-> seq]
              [] (\A f \in {title, start, end} : Bind(f).t # "raise") /\ locked ->
                   [returned |-> Raise("OperationalError"), rows |-> rows, seq |-> seq]
              [] OTHER ->
                   [returned |-> BoolV(TRUE),
                    rows |-> Append(rows,
                               [id |-> seq + 1, user_id |-> user_id, title |-> Bind(title),
                                start |-> Bind(start), end |-> Bind(end)]),
                    seq |-> seq + 1]
        Of(user_id) ==
            IF ~Truthy(user_id)
            THEN [returned |-> BoolV(FALSE), rows |-> rows, seq |-> seq]
            ELSE Known(user_id.v)
    IN Of(get_user_id(username))

\* delete_event(username, event_id): False for an unknown user, else the rows
\* without the user's row of that id, and whether a row went (rowcount > 0).
delete_event(rows, locked, username, event_id) ==
    LET Known(user_id) ==
            IF locked
            THEN [returned |-> Raise("OperationalError"), rows |-> rows]
            ELSE [returned |-> BoolV(\E i \in 1..Len(rows) : OwnRow(rows[i], event_id, user_id)),
                  rows |-> SelectSeq(rows, LAMBDA r : ~OwnRow(r, event_id, user_id))]
        Of(user_id) ==
            IF ~Truthy(user_id)
            THEN [returned |-> BoolV(FALSE), rows |-> rows]
            ELSE Known(user_id.v)
    IN Of(get_user_id(username))

\* add_project and add_news: the INSERT of one row and the commit.  The row
\* gets the next id; a title of None fails the NOT NULL constraint and the
\* connection, never closed, keeps the write lock until it is collected.
InsertRow(rows, seq, locked, row) ==
    CASE locked ->
           [returned |-> Raise("OperationalError"), rows |-> rows, seq |-> seq, locked |-> locked]
      [] ~locked /\ row.title = Null ->
           [returned |-> Raise("IntegrityError"), rows |-> rows, seq |-> seq, locked |-> TRUE]
      [] OTHER ->
           [returned |-> BoolV(TRUE),
            rows |-> Append(rows, [id |-> seq + 1] @@ row),
            seq |-> seq + 1,
            locked |-> locked]

\* The check the /admin/news routes make: a session user whose role is admin.
IsAdmin(sess) ==
    /\ "user" \in DOMAIN sess
    /\ "role" \in DOMAIN sess
    /\ sess["role"] = "admin"

\* ------------------------------------------------------------------ inputs of the database

\* The calls one run makes.
MaxSaves == 3

\* The usernames of the calls: two users and a name the users table lacks.
SurveyUsers == {"mp1", "mp2", "nobody"}

\* What callers hand to save_survey_data: dicts of indicators (a posted form,
\* an extracted record with its Sectors dict), and the None of a request
\* without a JSON body.
SurveyData ==
    { EmptyObj,
      Obj([Health |-> IntV(1)]),
      Obj([Health |-> FloatV(2 * Scale + Scale \div 2)]),
      Obj([Water |-> StrV("yes")]),
      Obj([Health |-> IntV(3), Water |-> Null]),
      Obj([Health |-> IntV(4), Sectors |-> Obj([Health |-> IntV(1)])]),
      Null }

\* The events one run adds.
MaxEvents == 3

\* The fields of an event as /api/events hands them on: title, start and end
\* are truthy JSON values (app.py:286), a text or a number or, from a crafted
\* request, a dict.
EventFields ==
    { <<StrV("Budget day"), StrV("2025-01-01"), StrV("2025-01-02")>>,
      <<IntV(7), StrV("2025-01-01"), StrV("2025-01-01")>>,
      <<Obj([x |-> IntV(1)]), StrV("2025-01-01"), StrV("2025-01-02")>> }

\* The rows one run adds to a table of the admin pages.
MaxRows == 2

\* The form fields of a project or news request: a title (None when the field
\* is missing) and, for a project, the budget text.
Forms ==
    [title : {Null, StrV("Dam")}, budget : {"", "250.5", "1,000"}]

\* ------------------------------------------------------------------ inputs of clean_numeric_value

\* The thousands an amount's text carries before its comma.
MaxThousands == 1

\* The digits of h as a group of three.
Group3(h) == Slice("00", 1, 3 - Len(ToString(h))) \o ToString(h)

\* An amount as documents write it: a currency prefix, a sign, the whole part
\* with its thousands separator, a fraction, a unit.
AmountText(prefix, sign, t, h, fraction, suffix) ==
    prefix \o sign
      \o (IF t > 0 THEN ToString(t) \o "," \o Group3(h) ELSE ToString(h))
      \o fraction \o suffix

Prefixes == {"", "K", "ZMW "}
Signs == {"", "-"}
Hundreds == {0, 7, 234}
Fractions == {"", ".5", ".50"}
Suffixes == {"", " m", "%"}

AmountTexts ==
    {AmountText(p[1], p[2], p[3], p[4], p[5], p[6]) :
       p \in Prefixes \X Signs \X (0..MaxThousands) \X Hundreds \X Fractions \X Suffixes}

\* Strings whose digits, "." and "-" make no number.
NoNumberTexts == {"abc", "", "-", "n/a", "1.2.3", "2023-24", "K1,234.50.", "5-", "--5", "."}

\* What clean_numeric_value is handed: None, ints, floats, strs, and values
\* of other types.
CleanInputs ==
    {Null, IntV(0), IntV(3), IntV(0 - 2), FloatV(0), FloatV(2 * Scale + Scale \div 2),
     FloatV(0 - Scale \div 2), EmptyObj, List(<<>>)}
      \cup {StrV(x) : x \in AmountTexts \cup NoNumberTexts}

\* ------------------------------------------------------------------ state

VARIABLES
    pc,                 \* where the call stands: idle, primary, secondary, merge, done
    text,               \* the document text of the call
    attempt,            \* the turns of the primary loop that have ended
    current_key_index,  \* the module's credential index
    client,             \* the credential slot the module's cached client was built with
    calls,              \* the outbound calls of this call of the function, in order
    ai_results,         \* what ai_extract_budget_info returned (Null before)
    result,             \* what extract_combined_budget_info returned or raised (Null before)
    data,               \* the record handed to prepare_graph_data (Null before)
    graphs,             \* what prepare_graph_data returned or raised (Null before)
    doc,                \* the text handed to the two table extractors
    total,              \* what extract_total_budget returned (Pending before)
    agriculture,        \* what extract_agriculture_budget returned or raised (Pending before)
    survey_data,        \* the committed rows of the survey_data table, in rowid order
    db_locked,          \* a connection left open by a raise holds the database's write lock
    survey_log,         \* the calls of save_survey_data made so far, with what each returned
    events,             \* the committed rows of the events table, in rowid order
    event_seq,          \* the largest event id given out (sqlite_sequence)
    event_call,         \* the last call of add_event or delete_event, with what it returned
    events_before,      \* the rows of events before that call
    session,            \* the session cookie of the browser: the keys user and role, when set
    projects,           \* the committed rows of the projects table
    project_seq,        \* the largest project id given out
    news,               \* the committed rows of the news table
    news_seq,           \* the largest news id given out
    request,            \* the last request to an admin route, with the session and tables it met
    val,                \* the value handed to clean_numeric_value
    cleaned             \* what clean_numeric_value returned (Pending before)

aiVars == <<pc, text, attempt, current_key_index, client, calls, ai_results, result>>
graphVars == <<data, graphs>>
textVars == <<doc, total, agriculture>>
surveyVars == <<survey_data, survey_log>>
eventVars == <<events, event_seq, event_call, events_before>>
adminVars == <<session, projects, project_seq, news, news_seq, request>>
dbVars == <<surveyVars, db_locked, eventVars, adminVars>>
cleanVars == <<val, cleaned>>
otherVars == <<graphVars, textVars, dbVars, cleanVars>>
vars == <<aiVars, otherVars>>

\* A call that has not returned yet.
Pending == [t |-> "pending"]

\* No call of the AI pipeline has been made: the module is as loaded.
AIIdle ==
    /\ pc = "idle"
    /\ text = ""
    /\ attempt = 0
    /\ current_key_index = 0
    /\ client = 0
    /\ calls = <<>>
    /\ ai_results = Null
    /\ result = Null

\* prepare_graph_data has not been called.
GraphIdle == data = Null /\ graphs = Null

\* The table extractors have not been called.
TextIdle == doc = "" /\ total = Pending /\ agriculture = Pending

\* The database as init_db() leaves a new file, and no call made on it.
DbIdle ==
    /\ survey_data = <<>>
    /\ db_locked = FALSE
    /\ survey_log = <<>>
    /\ events = <<>>
    /\ event_seq = 0
    /\ event_call = Null
    /\ events_before = <<>>
    /\ session = <<>>
    /\ projects = <<>>
    /\ project_seq = 0
    /\ news = <<>>
    /\ news_seq = 0
    /\ request = Null

\* clean_numeric_value has not been called on its own.
CleanIdle == val = Null /\ cleaned = Pending

Init == AIIdle /\ GraphIdle /\ TextIdle /\ DbIdle /\ CleanIdle

OpenAICall(slot, outcome, reply) ==
    [provider |-> "openai", slot |-> slot, outcome |-> outcome, reply |-> reply]

DeepSeekCall(outcome, reply) ==
    [provider |-> "deepseek", slot |-> 0, outcome |-> outcome, reply |-> reply]

\* extract_combined_budget_info(t) is called: ai_extract_budget_info starts.
Call(t) ==
    /\ pc \in {"idle", "done"}
    /\ pc' = "primary"
    /\ text' = t
    /\ attempt' = 0
    /\ calls' = <<>>
    /\ ai_results' = Null
    /\ result' = Null
    /\ UNCHANGED <<current_key_index, client, otherVars>>

\* Where the loop over the primary provider goes after a turn.
AfterTurn(flow) ==
    /\ attempt' = attempt + 1
    /\ pc' = CASE flow = "continue" -> IF attempt + 1 < LoopBound THEN "primary" ELSE "secondary"
               [] flow = "break" -> "secondary"
               [] OTHER -> "merge"

\* One turn of the loop: get_client() gave g, the chat completion ended with
\* `outcome` (and the reply content, if any) and the turn goes on with `flow`,
\* returning `parsed` when the flow is a return.
Turn(g, outcome, reply, flow, parsed) ==
    /\ client' = g.client
    /\ current_key_index' = g.current_key_index
    /\ calls' = Append(calls, OpenAICall(g.client, outcome, reply))
    /\ AfterTurn(flow)
    /\ ai_results' = IF flow = "return" THEN parsed ELSE ai_results
    /\ UNCHANGED <<text, result, otherVars>>

\* One turn of the loop whose chat completion raises exc.
PrimaryRaise(exc) ==
    /\ pc = "primary"
    /\ Turn(get_client(client, current_key_index), exc, Null, PrimaryHandler(exc), Null)

\* One turn of the loop whose chat completion returns the reply content.
PrimaryReply(content) ==
    /\ pc = "primary"
    /\ LET Parsed1(parsed) ==
               Turn(get_client(client, current_key_index), "reply", StrV(content),
                    PrimaryReplyFlow(parsed), parsed)
       IN Parsed1(extract_json_from_text(content))

\* The secondary branch with no DEEPSEEK_API_KEY configured: {} and no call.
SecondaryNoKey ==
    /\ pc = "secondary"
    /\ pc' = "merge"
    /\ ai_results' = EmptyObj
    /\ UNCHANGED <<text, attempt, current_key_index, client, calls, result, otherVars>>

\* The call of the secondary provider raises exc.
SecondaryRaise(exc) ==
    /\ pc = "secondary"
    /\ pc' = "merge"
    /\ calls' = Append(calls, DeepSeekCall(exc, Null))
    /\ ai_results' = SecondaryHandler(exc)
    /\ UNCHANGED <<text, attempt, current_key_index, client, result, otherVars>>

\* The call of the secondary provider returns a reply (None for a null content).
SecondaryReply(reply) ==
    /\ pc = "secondary"
    /\ pc' = "merge"
    /\ calls' = Append(calls, DeepSeekCall("reply", reply))
    /\ ai_results' = SecondaryResult(reply)
    /\ UNCHANGED <<text, attempt, current_key_index, client, result, otherVars>>

\* The rest of extract_combined_budget_info once the AI call is over: an
\* exception of the AI call goes on to the caller, a result is merged.
Merge ==
    /\ pc = "merge"
    /\ pc' = "done"
    /\ result' = IF ai_results.t = "raise" THEN ai_results ELSE MergeResults(ai_results, text)
    /\ UNCHANGED <<text, attempt, current_key_index, client, calls, ai_results, otherVars>>

Next ==
    \/ \E t \in Texts : Call(t)
    \/ \E exc \in PrimaryExceptions : PrimaryRaise(exc)
    \/ \E content \in Replies : PrimaryReply(content)
    \/ SecondaryNoKey
    \/ \E exc \in SecondaryExceptions : SecondaryRaise(exc)
    \/ \E reply \in {StrV(r) : r \in Replies} \cup {Null} : SecondaryReply(reply)
    \/ Merge

Spec == Init /\ [][Next]_vars

\* ------------------------------------------------------------------ prepare_graph_data, applied

\* A record is handed to prepare_graph_data; nothing else of the program runs.
InitGraph ==
    /\ AIIdle
    /\ TextIdle
    /\ DbIdle
    /\ CleanIdle
    /\ data \in BudgetRecords
    /\ graphs = Null

\* prepare_graph_data(data) returns or raises.
PrepareGraph ==
    /\ graphs = Null
    /\ graphs' = prepare_graph_data(data)
    /\ UNCHANGED <<aiVars, textVars, dbVars, cleanVars, data>>

NextGraph == PrepareGraph

SpecGraph == InitGraph /\ [][NextGraph]_vars

\* ------------------------------------------------------------------ the table extractors, applied

\* A text is handed to extract_total_budget and extract_agriculture_budget;
\* nothing else of the program runs.
InitText ==
    /\ AIIdle
    /\ GraphIdle
    /\ DbIdle
    /\ CleanIdle
    /\ doc \in DocTexts
    /\ total = Pending
    /\ agriculture = Pending

\* extract_total_budget(doc) returns.
ExtractTotal ==
    /\ total = Pending
    /\ total' = extract_total_budget(doc)
    /\ UNCHANGED <<aiVars, graphVars, dbVars, cleanVars, doc, agriculture>>

\* extract_agriculture_budget(doc) returns or raises.
ExtractAgriculture ==
    /\ agriculture = Pending
    /\ agriculture' = extract_agriculture_budget(doc)
    /\ UNCHANGED <<aiVars, graphVars, dbVars, cleanVars, doc, total>>

NextText == ExtractTotal \/ ExtractAgriculture

SpecText == InitText /\ [][NextText]_vars

\* ------------------------------------------------------------------ the survey store, applied

\* Calls of save_survey_data on a new database; nothing else of the program runs.
InitSurvey == AIIdle /\ GraphIdle /\ TextIdle /\ DbIdle /\ CleanIdle

\* save_survey_data(username, data) returns or raises.
SaveSurvey ==
    /\ Len(survey_log) < MaxSaves
    /\ \E username \in SurveyUsers, d \in SurveyData :
         LET Done(r) ==
                 /\ survey_data' = r.rows
                 /\ db_locked' = r.locked
                 /\ survey_log' = Append(survey_log,
                        [username |-> username, data |-> d, returned |-> r.returned])
         IN Done(save_survey_data(survey_data, db_locked, username, d))
    /\ UNCHANGED <<aiVars, graphVars, textVars, cleanVars, eventVars, adminVars>>

\* The connection a raise left open is collected: its transaction is rolled
\* back and the lock released.
Collect ==
    /\ db_locked
    /\ db_locked' = FALSE
    /\ UNCHANGED <<aiVars, graphVars, textVars, cleanVars, surveyVars, eventVars, adminVars>>

NextSurvey == SaveSurvey \/ Collect

SpecSurvey == InitSurvey /\ [][NextSurvey]_vars

\* ------------------------------------------------------------------ the events, applied

\* Calls of add_event and delete_event on a new database; nothing else of the
\* program runs.
InitEvents == AIIdle /\ GraphIdle /\ TextIdle /\ DbIdle /\ CleanIdle

\* add_event(username, title, start, end) returns or raises.
AddEvent ==
    /\ event_seq < MaxEvents
    /\ \E username \in SurveyUsers, f \in EventFields :
         LET Done(r) ==
                 /\ events' = r.rows
                 /\ event_seq' = r.seq
                 /\ event_call' = [op |-> "add_event", username |-> username,
                                   event_id |-> 0, returned |-> r.returned]
         IN Done(add_event(events, event_seq, db_locked, username, f[1], f[2], f[3]))
    /\ events_before' = events
    /\ UNCHANGED <<aiVars, graphVars, textVars, cleanVars, surveyVars, adminVars, db_locked>>

\* delete_event(username, event_id) returns or raises.
DeleteEvent ==
    /\ \E username \in SurveyUsers, event_id \in 1..MaxEvents :
         LET Done(r) ==
                 /\ events' = r.rows
                 /\ event_call' = [op |-> "delete_event", username |-> username,
                                   event_id |-> event_id, returned |-> r.returned]
         IN Done(delete_event(events, db_locked, username, event_id))
    /\ events_before' = events
    /\ UNCHANGED <<aiVars, graphVars, textVars, cleanVars, surveyVars, adminVars, db_locked, event_seq>>

NextEvents == AddEvent \/ DeleteEvent

SpecEvents == InitEvents /\ [][NextEvents]_vars

\* ------------------------------------------------------------------ the admin routes, applied

\* Requests of one browser on a new database; nothing else of the program runs.
InitAdmin == AIIdle /\ GraphIdle /\ TextIdle /\ DbIdle /\ CleanIdle

\* What the program keeps outside the admin routes.
AdminFrame == UNCHANGED <<aiVars, graphVars, textVars, cleanVars, surveyVars, eventVars>>

\* The request as it arrives at a route.
Request(route) ==
    [route |-> route, session |-> session, projects |-> projects, news |-> news]

\* POST /login with the credentials of a row of users: verify_user returns the
\* role and the session takes user and role.
Login ==
    /\ \E i \in 1..Len(UsersTable) :
         session' = [k \in {"user", "role"} |->
                       IF k = "user" THEN UsersTable[i].username ELSE UsersTable[i].role]
    /\ UNCHANGED <<projects, project_seq, news, news_seq, request, db_locked>>
    /\ AdminFrame

\* GET /logout: session.pop("user"); the role stays in the session.
Logout ==
    /\ session' = [k \in DOMAIN session \ {"user"} |-> session[k]]
    /\ UNCHANGED <<projects, project_seq, news, news_seq, request, db_locked>>
    /\ AdminFrame

\* POST /admin/news/add: redirects to /login unless the session is an
\* admin's, else inserts the row posted by the session user.
AddNews ==
    /\ news_seq < MaxRows
    /\ request' = Request("/admin/news/add")
    /\ \E form \in Forms :
         IF ~IsAdmin(session)
         THEN UNCHANGED <<news, news_seq, db_locked>>
         ELSE LET Done(r) ==
                      /\ news' = r.rows
                      /\ news_seq' = r.seq
                      /\ db_locked' = r.locked
              IN Done(InsertRow(news, news_seq, db_locked,
                                [title |-> form.title, posted_by |-> session["user"]]))
    /\ UNCHANGED <<session, projects, project_seq>>
    /\ AdminFrame

\* POST /admin/news/delete/<news_id>: redirects to /login unless the session
\* is an admin's, else deletes the row of that id.
DeleteNews ==
    /\ request' = Request("/admin/news/delete")
    /\ \E news_id \in 1..MaxRows :
         IF ~IsAdmin(session) \/ db_locked
         THEN UNCHANGED news
         ELSE news' = SelectSeq(news, LAMBDA r : r.id # news_id)
    /\ UNCHANGED <<session, projects, project_seq, news_seq, db_locked>>
    /\ AdminFrame

\* POST /admin/projects/add: float() of the budget field (0 when empty; a
\* text that is no float raises ValueError before anything is written), then
\* the row is inserted.  The route looks at no session.
AddProject ==
    /\ project_seq < MaxRows
    /\ request' = Request("/admin/projects/add")
    /\ \E form \in Forms :
         LET Budget(f) ==
                 IF f.t = "raise"
                 THEN UNCHANGED <<projects, project_seq, db_locked>>
                 ELSE LET Done(r) ==
                              /\ projects' = r.rows
                              /\ project_seq' = r.seq
                              /\ db_locked' = r.locked
                      IN Done(InsertRow(projects, project_seq, db_locked,
                                        [title |-> form.title, budget |-> f]))
         IN Budget(IF form.budget = "" THEN FloatV(0) ELSE PyFloat(form.budget))
    /\ UNCHANGED <<session, news, news_seq>>
    /\ AdminFrame

\* POST /admin/projects/update/<project_id>: the same fields, written over
\* the row of that id.  The route looks at no session.
UpdateProject ==
    /\ request' = Request("/admin/projects/update")
    /\ \E project_id \in 1..MaxRows, form \in Forms :
         LET Budget(f) ==
                 CASE f.t = "raise" \/ db_locked ->
                        UNCHANGED <<projects, db_locked>>
                   [] f.t # "raise" /\ ~db_locked /\ form.title = Null ->
                        /\ UNCHANGED projects
                        /\ db_locked' = (\E i \in 1..Len(projects) : projects[i].id = project_id)
                   [] OTHER ->
                        /\ projects' = [i \in 1..Len(projects) |->
                                          IF projects[i].id = project_id
                                          THEN [id |-> project_id, title |-> form.title, budget |-> f]
                                          ELSE projects[i]]
                        /\ UNCHANGED db_locked
         IN Budget(IF form.budget = "" THEN FloatV(0) ELSE PyFloat(form.budget))
    /\ UNCHANGED <<session, project_seq, news, news_seq>>
    /\ AdminFrame

\* POST /admin/projects/delete/<project_id>: deletes the row of that id.  The
\* route looks at no session.
DeleteProject ==
    /\ request' = Request("/admin/projects/delete")
    /\ \E project_id \in 1..MaxRows :
         IF db_locked
         THEN UNCHANGED projects
         ELSE projects' = SelectSeq(projects, LAMBDA r : r.id # project_id)
    /\ UNCHANGED <<session, project_seq, news, news_seq, db_locked>>
    /\ AdminFrame

NextAdmin ==
    \/ Login
    \/ Logout
    \/ AddNews
    \/ DeleteNews
    \/ AddProject
    \/ UpdateProject
    \/ DeleteProject
    \/ Collect

SpecAdmin == InitAdmin /\ [][NextAdmin]_vars

\* ------------------------------------------------------------------ clean_numeric_value, applied

\* A value is handed to clean_numeric_value; nothing else of the program runs.
InitClean ==
    /\ AIIdle
    /\ GraphIdle
    /\ TextIdle
    /\ DbIdle
    /\ val \in CleanInputs
    /\ cleaned = Pending

\* clean_numeric_value(val) returns.
Clean ==
    /\ cleaned = Pending
    /\ cleaned' = clean_numeric_value(val)
    /\ UNCHANGED <<aiVars, graphVars, textVars, dbVars, val>>

NextClean == Clean

SpecClean == InitClean /\ [][NextClean]_vars

\* ------------------------------------------------------------------ properties: the merge

\* The top-level numeric fields of a record.
ScalarLabels == {"Total Budget", "Adaptation", "Mitigation", "Public"}

\* The names of the sectors.
SectorNames == {"Energy", "Agriculture", "Health", "Transport", "Water"}

\* The keywords whose number belongs under the top-level field l, in the order
\* the keyword extractor reports them.
LabelKeywords(l) ==
    CASE l = "Total Budget" ->
            << "total budget", "total public investment in climate initiatives" >>
      [] l = "Adaptation" ->
            << "percentage of national budget allocated to climate adaptation", "adaptation" >>
      [] l = "Mitigation" -> << "mitigation" >>
      [] OTHER -> << >>

\* The keyword of a sector name.
SectorKeyword(S) ==
    CASE S = "Energy" -> "energy" [] S = "Agriculture" -> "agriculture"
      [] S = "Health" -> "health" [] S = "Transport" -> "transport" [] S = "Water" -> "water"

\* The keywords of field l among the keywords found.
FoundFor(found, l) == {i \in 1..Len(LabelKeywords(l)) : LabelKeywords(l)[i] \in DOMAIN found}

\* The least number of a non-empty set of numbers.
Least(S) == CHOOSE i \in S : \A j \in S : i <= j

\* The number the keywords found give field l: that of the first keyword of l
\* found with a number, None when there is no such keyword.
KeywordFill(found, l) ==
    LET Of(some) == IF some = {} THEN Null ELSE found[LabelKeywords(l)[Least(some)]]
    IN Of({i \in FoundFor(found, l) : found[LabelKeywords(l)[i]] # Null})

\* The call has returned a record, merged from the dict of the AI call.
Returned == pc = "done" /\ ai_results.t = "obj" /\ result.t = "obj"

\* The AI result holds field l with a value other than null.
AIHolds(l) == l \in DOMAIN ai_results.v /\ ai_results.v[l] # Null

\* The AI result holds field l with a value that is a number once cleaned.
AIHoldsNumber(l) == l \in DOMAIN ai_results.v /\ clean_recursive(ai_results.v[l]) # Null

\* C1, as stated: in every returned record, a top-level field that is present
\* and non-null in the AI result has the cleaned AI value, whatever the keyword
\* extractor found for it.
C1_AIValueWins ==
    Returned =>
        \A l \in ScalarLabels :
            AIHolds(l) =>
                l \in DOMAIN result.v /\ result.v[l] = clean_recursive(ai_results.v[l])

\* C1, amended: in every returned record, a top-level field whose AI value is
\* a number once cleaned has that number, whatever the keyword extractor found
\* for it; a field that is absent from the AI result, or null once cleaned (a
\* text such as "N/A"), has the number of the first keyword of that field found
\* with a number, and is absent only when the AI result lacks it and no keyword
\* of it was found.
C1_CleanedAIValueWins ==
    Returned =>
        LET found == extract_numbers_from_text(text, Keywords)
        IN \A l \in ScalarLabels :
            IF AIHoldsNumber(l)
            THEN l \in DOMAIN result.v /\ result.v[l] = clean_recursive(ai_results.v[l])
            ELSE IF l \in DOMAIN result.v
            THEN result.v[l] = KeywordFill(found, l)
            ELSE l \notin DOMAIN ai_results.v /\ FoundFor(found, l) = {}

\* C1, witness: a returned record keeps the AI number of a field for which the
\* keyword extractor found another number.
C1_Witness ==
    /\ Returned
    /\ LET found == extract_numbers_from_text(text, Keywords)
       IN \E l \in ScalarLabels :
            /\ AIHoldsNumber(l)
            /\ KeywordFill(found, l) # Null
            /\ KeywordFill(found, l) # clean_recursive(ai_results.v[l])
            /\ result.v[l] = clean_recursive(ai_results.v[l])

\* The AI result holds sector S with a value that is a number once cleaned.
AIHoldsSector(S) ==
    /\ "Sectors" \in DOMAIN ai_results.v
    /\ ai_results.v["Sectors"].t = "obj"
    /\ S \in DOMAIN ai_results.v["Sectors"].v
    /\ clean_recursive(ai_results.v["Sectors"].v[S]) # Null

\* C2: in every returned record, a sector whose AI value is a number has that
\* number under Sectors, also when the keyword extractor found a number for the
\* sector.
C2_AISectorWins ==
    Returned =>
        \A S \in SectorNames :
            AIHoldsSector(S) =>
                /\ "Sectors" \in DOMAIN result.v
                /\ result.v["Sectors"].t = "obj"
                /\ S \in DOMAIN result.v["Sectors"].v
                /\ result.v["Sectors"].v[S] = clean_recursive(ai_results.v["Sectors"].v[S])

\* ------------------------------------------------------------------ properties: the AI call

\* The call of ai_extract_budget_info has returned.
AIReturned == pc \in {"merge", "done"}

\* The calls of the log made to a provider.
CallsTo(provider) == {i \in 1..Len(calls) : calls[i].provider = provider}

\* Call i ended with an exception.
Raised(i) == calls[i].outcome # "reply"

\* Call i ended with a reply from which no non-empty JSON object was parsed.
Unparsed(i) ==
    calls[i].outcome = "reply" /\ ~Truthy(extract_json_from_text(OrEmpty(calls[i].reply)))

\* Call i ended with an authentication or a rate-limit error.
KeyFailed(i) == calls[i].outcome \in {"AuthenticationError", "RateLimitError"}

\* C3: ai_extract_budget_info returns a mapping whatever the providers did, and
\* the empty mapping when every call it made ended with an exception (or it
\* made none to the secondary provider for want of a key).
C3_NeverRaises ==
    AIReturned =>
        /\ ai_results.t = "obj"
        /\ (\A i \in 1..Len(calls) : Raised(i)) => ai_results = EmptyObj

\* C3, witness: every slot of the primary provider and the secondary provider
\* failed with an exception, and the call returned {}.
C3_Witness ==
    /\ pc = "merge"
    /\ Len(calls) = NumKeys + 1
    /\ \A i \in 1..Len(calls) : Raised(i)
    /\ calls[Len(calls)].provider = "deepseek"
    /\ ai_results = EmptyObj

\* C4: a primary attempt that follows one that failed with an authentication
\* or rate-limit error on slot i is made with slot i + 1.
C4_NextSlotAfterKeyFailure ==
    \A i \in 1..(Len(calls) - 1) :
        (calls[i].provider = "openai" /\ KeyFailed(i) /\ calls[i + 1].provider = "openai")
            => calls[i + 1].slot = calls[i].slot + 1

\* Call i is the last of the primary provider: the loop is over, and a later
\* call goes to the secondary provider.
EndsPrimary(i) ==
    /\ i = Len(calls) => pc # "primary"
    /\ i < Len(calls) => calls[i + 1].provider = "deepseek"

\* C5, as stated: a primary attempt that fails otherwise than by an
\* authentication or rate-limit error, an unparseable reply included, is the
\* last primary attempt of the call.
C5_AnyOtherFailureEndsPrimary ==
    \A i \in CallsTo("openai") :
        ((Raised(i) /\ ~KeyFailed(i)) \/ Unparsed(i)) => EndsPrimary(i)

\* C5, amended: a primary attempt that ends with an exception other than an
\* authentication or rate-limit error is the last primary attempt of the call;
\* after an unparseable reply the loop goes on as after a rate limit, to the
\* next turn while one is left.
C5_OtherExceptionEndsPrimary ==
    \A i \in CallsTo("openai") :
        /\ (Raised(i) /\ ~KeyFailed(i)) => EndsPrimary(i)
        /\ (Unparsed(i) /\ i = Len(calls) /\ i < LoopBound) => pc = "primary"

\* C5, witness: a network error of the first primary attempt was followed by
\* the call of the secondary provider.
C5_Witness ==
    /\ Len(calls) = 2
    /\ calls[1].provider = "openai"
    /\ calls[1].outcome = "APIConnectionError"
    /\ calls[2].provider = "deepseek"

\* C6: a call makes at most len(API_KEYS) primary attempts and then at most one
\* secondary attempt, which is the last call; after a primary attempt that
\* produced a parsed result the function has returned and no call follows.
C6_BoundedAttempts ==
    /\ Cardinality(CallsTo("openai")) <= NumKeys
    /\ Cardinality(CallsTo("deepseek")) <= 1
    /\ \A i \in CallsTo("deepseek") : i = Len(calls) /\ AIReturned
    /\ \A i \in CallsTo("openai") :
        (calls[i].outcome = "reply" /\ ~Unparsed(i)) => (i = Len(calls) /\ AIReturned)

\* C6, witness: every slot was tried once and then the secondary provider.
C6_Witness ==
    /\ Cardinality(CallsTo("openai")) = NumKeys
    /\ Cardinality(CallsTo("deepseek")) = 1
    /\ AIReturned

\* No JSON object could be parsed from the reply of call i.
NoJson(i) ==
    calls[i].outcome = "reply" /\ extract_json_from_text(OrEmpty(calls[i].reply)) = Null

\* The returned mapping holds reply r under raw_reply.
KeepsRaw(r) ==
    ai_results.t = "obj" /\ "raw_reply" \in DOMAIN ai_results.v /\ ai_results.v["raw_reply"] = r

\* The calls that ended with a reply from which no JSON object could be parsed.
NoJsonCalls == {i \in 1..Len(calls) : NoJson(i)}

\* The greatest number of a non-empty set of numbers.
Greatest(S) == CHOOSE i \in S : \A j \in S : j <= i

\* C7, as stated: when the call has returned and an unparseable reply is all
\* it obtained (no reply gave a JSON object), the returned mapping holds the
\* last such reply under raw_reply, and so is not the empty mapping.
C7_UnparsedReplyKept ==
    (AIReturned /\ NoJsonCalls # {} /\ \A i \in 1..Len(calls) : Raised(i) \/ NoJson(i))
        => KeepsRaw(calls[Greatest(NoJsonCalls)].reply)

\* C7, amended: the reply of the secondary provider from which no non-empty
\* JSON object could be parsed is returned as the mapping {raw_reply: reply};
\* an unparseable reply of the primary provider is not kept.
C7_SecondaryReplyKept ==
    AIReturned =>
        \A i \in CallsTo("deepseek") :
            Unparsed(i) => ai_results = Obj("raw_reply" :> calls[i].reply)

\* C7, witness: the secondary provider answered in prose and the call returned
\* that prose under raw_reply.
C7_Witness ==
    /\ AIReturned
    /\ \E i \in CallsTo("deepseek") :
        /\ NoJson(i)
        /\ calls[i].reply.t = "str"
        /\ Len(calls[i].reply.v) > 0
        /\ KeepsRaw(calls[i].reply)

\* Both providers were called and every call ended with an exception.
BothFailed ==
    /\ pc = "done"
    /\ CallsTo("openai") # {}
    /\ CallsTo("deepseek") # {}
    /\ \A i \in 1..Len(calls) : Raised(i)

\* The sectors whose keyword is among the keywords found.
FoundSectors(found) == {S \in SectorNames : SectorKeyword(S) \in DOMAIN found}

\* C8: when both providers fail with errors, extract_combined_budget_info
\* returns a record whose keys are the canonical names of the keywords found
\* and nothing else: each top-level field with the number of the first of its
\* keywords found with a number, each sector found under Sectors with its
\* number.
C8_KeywordOnlyRecord ==
    BothFailed =>
        LET found == extract_numbers_from_text(text, Keywords)
        IN /\ result.t = "obj"
           /\ DOMAIN result.v =
                 {l \in ScalarLabels : FoundFor(found, l) # {}}
                     \cup (IF FoundSectors(found) = {} THEN {} ELSE {"Sectors"})
           /\ \A l \in ScalarLabels \cap DOMAIN result.v : result.v[l] = KeywordFill(found, l)
           /\ "Sectors" \in DOMAIN result.v =>
                 result.v["Sectors"] =
                     Obj([S \in FoundSectors(found) |-> found[SectorKeyword(S)]])

\* C8, witness: both providers failed and the record holds a total and a sector
\* taken from the text.
C8_Witness ==
    /\ BothFailed
    /\ result.t = "obj"
    /\ "Total Budget" \in DOMAIN result.v
    /\ result.v["Total Budget"] # Null
    /\ "Sectors" \in DOMAIN result.v
    /\ "Energy" \in DOMAIN result.v["Sectors"].v

\* ------------------------------------------------------------------ properties: prepare_graph_data

\* prepare_graph_data has returned its three views.
GraphsReturned == graphs # Null /\ graphs.t = "obj"

\* C9: prepare_graph_data returns the three views for every record, partial
\* ones included, and does not raise.
C9_NoErrorConditions ==
    graphs # Null =>
        /\ graphs.t = "obj"
        /\ DOMAIN graphs.v = {"projects", "categories", "yearly"}

RECURSIVE SumOver(_, _)
\* The sum, in units, of the numbers function f holds under the keys of ks.
SumOver(f, ks) ==
    IF ks = {} THEN 0
    ELSE LET k == CHOOSE x \in ks : TRUE
         IN (IF IsNum(f[k]) THEN Units(f[k]) ELSE 0) + SumOver(f, ks \ {k})

\* The total budget of the record, in units: 0 when the key is absent.
BudgetOf(d) == IF "Total Budget" \in DOMAIN d.v THEN Units(d.v["Total Budget"]) ELSE 0

\* The sum of the sectors of the record, in units: 0 when there are none.
SectorsSumOf(d) ==
    IF "Sectors" \in DOMAIN d.v /\ d.v["Sectors"].t = "obj"
    THEN SumOver(d.v["Sectors"].v, DOMAIN d.v["Sectors"].v)
    ELSE 0

\* The sum of the numbers of all project items of the record, in units.
ProjectsSumOf(d) ==
    IF "Climate Projects" \in DOMAIN d.v /\ d.v["Climate Projects"].t = "list"
    THEN LET items == d.v["Climate Projects"].v
             sums == [i \in 1..Len(items) |-> FloatV(SumOver(items[i].v, DOMAIN items[i].v))]
         IN SumOver(sums, 1..Len(items))
    ELSE 0

\* The Total of the Unallocated category of the views, in units.
UnallocatedOf(g) == Units(g.v["categories"].v[3].v["Total"])

\* C10: in the views returned for a record, the Total of the Unallocated
\* category is max(TotalBudget - (sectors_sum + projects_sum), 0), and so never
\* negative.
C10_UnallocatedNonNegative ==
    GraphsReturned =>
        LET rest == BudgetOf(data) - (SectorsSumOf(data) + ProjectsSumOf(data))
        IN /\ graphs.v["categories"].v[3].v["Category"] = StrV("Unallocated")
           /\ UnallocatedOf(graphs) >= 0
           /\ UnallocatedOf(graphs) = IF rest > 0 THEN rest ELSE 0

\* C10, witness: the sectors and the projects of a record together exceed its
\* total budget, and the views returned show nothing unallocated.
C10_Witness ==
    /\ GraphsReturned
    /\ SectorsSumOf(data) > 0
    /\ ProjectsSumOf(data) > 0
    /\ BudgetOf(data) > 0
    /\ SectorsSumOf(data) + ProjectsSumOf(data) > BudgetOf(data)
    /\ UnallocatedOf(graphs) = 0

\* ------------------------------------------------------------------ properties: the table extractors

\* The indices of s at which the word Total starts, in any spelling of case.
TotalAt(s) == {p \in 1..Len(s) : Lower(Slice(s, p, p + 4)) = "total"}

\* The indices from p on at which a digit stands.
DigitsFrom(s, p) == {d \in p..Len(s) : IsDigit(At(s, d))}

\* The last index of the stretch of digits and commas that starts at index d.
GroupEnd(s, d) ==
    Greatest({k \in d..Len(s) : \A m \in d..k : At(s, m) \in Digits \cup {","}})

\* The numbers that follow an occurrence of the word Total in s, in units:
\* for each occurrence, the digits of the stretch of digits and commas that
\* starts at the first digit after the word.
NumbersAfterTotal(s) ==
    { DigitsValue(Keep(Slice(s, Least(DigitsFrom(s, p + 5)),
                             GroupEnd(s, Least(DigitsFrom(s, p + 5)))), Digits), 0) * Scale :
        p \in {q \in TotalAt(s) : DigitsFrom(s, q + 5) # {}} }

\* C11: extract_total_budget returns the greatest of the numbers that follow
\* an occurrence of the word Total (a number being a stretch of digits and
\* commas), and None when no occurrence is followed by a number.
C11_TotalIsMaximum ==
    total # Pending =>
        LET numbers == NumbersAfterTotal(doc)
        IN IF numbers = {} THEN total = Null
           ELSE total = FloatV(Greatest(numbers))

\* C11, witness: for "Total 100 ... Total 900" the total returned is 900.0,
\* neither the first number nor the only one.
C11_Witness ==
    /\ doc = "Total 100 ... Total 900"
    /\ total = FloatV(900 * Scale)
    /\ NumbersAfterTotal(doc) = {100 * Scale, 900 * Scale}

\* The text of the end-to-end scenario, its year columns joined by commas.
ScenarioText == "Energy 17 1000,500,400 Agriculture 18 2000,900,800 Total Budget: 5,000,000"

\* The same table with its year columns separated by blanks.
ScenarioTextBlanks == "Energy 17 1000 500 400 Agriculture 18 2000 900 800 Total Budget: 5,000,000"

\* One row for Agriculture with 2000, 900 and 800, and the totals of that row.
ScenarioRows ==
    Tuple(<< List(<< Obj(("Programme" :> StrV("Agriculture")) @@ ("2024" :> FloatV(2000 * Scale))
                         @@ ("2023" :> FloatV(900 * Scale)) @@ ("2022" :> FloatV(800 * Scale))) >>),
             Obj(("2022" :> FloatV(800 * Scale)) @@ ("2023" :> FloatV(900 * Scale))
                 @@ ("2024" :> FloatV(2000 * Scale))) >>)

\* Both extractors have returned.
Extracted == total # Pending /\ agriculture # Pending

\* C12, as stated: for the scenario text extract_total_budget returns
\* 5000000.0 and extract_agriculture_budget returns the one Agriculture row
\* with its totals.
C12_ScenarioAsStated ==
    (doc = ScenarioText /\ Extracted) =>
        total = FloatV(5000000 * Scale) /\ agriculture = ScenarioRows

\* C12, amended: for the scenario text extract_total_budget returns 5000000.0
\* and extract_agriculture_budget returns (None, None), the year columns
\* joined by commas being one number to it; with the columns separated by
\* blanks it returns the one Agriculture row with its totals, and the total
\* budget is the same.
C12_ScenarioWithBlanks ==
    /\ (doc = ScenarioText /\ Extracted) =>
            total = FloatV(5000000 * Scale) /\ agriculture = Tuple(<<Null, Null>>)
    /\ (doc = ScenarioTextBlanks /\ Extracted) =>
            total = FloatV(5000000 * Scale) /\ agriculture = ScenarioRows

\* C12, witness: both extractors have returned for the table with blanks, the
\* agriculture extractor with a row.
C12_Witness ==
    /\ doc = ScenarioTextBlanks
    /\ Extracted
    /\ agriculture.t = "tuple"
    /\ agriculture.v[1] # Null

\* ------------------------------------------------------------------ properties: the leaves of the merged record

RECURSIVE LeavesAreNumbers(_)
\* Every scalar leaf of value x, at any depth of dicts and lists, is a float
\* or None.
LeavesAreNumbers(x) ==
    CASE x.t = "obj" -> \A k \in DOMAIN x.v : LeavesAreNumbers(x.v[k])
      [] x.t = "list" -> \A i \in 1..Len(x.v) : LeavesAreNumbers(x.v[i])
      [] OTHER -> x.t \in {"float", "null"}

AIHoldsProjects ==
    "Climate Projects" \in DOMAIN ai_results.v /\ ai_results.v["Climate Projects"].t = "list"

\* Item i of the record's projects is item i of the AI result's: the same keys
\* and the same programme name.
SameItem(mine, theirs) ==
    /\ mine.t = theirs.t
    /\ theirs.t = "obj" =>
        /\ DOMAIN mine.v = DOMAIN theirs.v
        /\ "Programme" \in DOMAIN theirs.v => mine.v["Programme"] = theirs.v["Programme"]

\* C14: a returned record has the Climate Projects of the AI result: as many
\* items in the same order, each with the same keys and the same programme
\* name.
C14_ProjectsPreserved ==
    (Returned /\ AIHoldsProjects) =>
        /\ "Climate Projects" \in DOMAIN result.v
        /\ result.v["Climate Projects"].t = "list"
        /\ Len(result.v["Climate Projects"].v) = Len(ai_results.v["Climate Projects"].v)
        /\ \A i \in 1..Len(ai_results.v["Climate Projects"].v) :
              SameItem(result.v["Climate Projects"].v[i], ai_results.v["Climate Projects"].v[i])

\* ------------------------------------------------------------------ properties: the survey store

\* The indices of the calls of save_survey_data(u, ...) that returned True.
Saved(u) ==
    {i \in 1..Len(survey_log) :
       survey_log[i].username = u /\ survey_log[i].returned = BoolV(TRUE)}

\* What the most recent successful save of u handed over, as the TEXT column
\* holds it; {} when u has saved nothing.
LastSaved(u) ==
    LET Stored(f) == Obj([k \in DOMAIN f |-> Bind(f[k])])
        Last(S) == IF S = {} THEN EmptyObj ELSE Stored(survey_log[Greatest(S)].data.v)
    IN Last(Saved(u))

\* C15: after any sequence of save_survey_data calls, get_survey_data(u)
\* returns exactly the indicators of the most recent successful save of u,
\* each with the text of the value saved, so no indicator of an earlier save
\* survives and a save of another user changes nothing of u's; a save for a
\* username the users table lacks returns False and no row is ever stored
\* for it.
C15_LastSaveOnly ==
    /\ \A u \in SurveyUsers : get_survey_data(survey_data, u) = LastSaved(u)
    /\ \A i \in 1..Len(survey_log) :
         ~Truthy(get_user_id(survey_log[i].username))
            => survey_log[i].returned = BoolV(FALSE)
    /\ \A i \in 1..Len(survey_data) :
         \E u \in SurveyUsers : get_user_id(u) = IntV(survey_data[i].user_id)

\* A user's second successful save lacks an indicator of the first, and a
\* save for a username the users table lacks was made in between.
C15_Witness ==
    \E u \in SurveyUsers : \E i \in Saved(u), j \in Saved(u) :
       /\ i < j
       /\ \E k \in DOMAIN survey_log[i].data.v : k \notin DOMAIN survey_log[j].data.v
       /\ "Water" \in DOMAIN get_survey_data(survey_data, u).v
       /\ \E m \in (i + 1)..(j - 1) : survey_log[m].returned = BoolV(FALSE)

\* ------------------------------------------------------------------ properties: clean_numeric_value

\* The number an amount's text stands for, in units.
AmountUnits(sign, t, h, fraction) ==
    LET Signed(u) == IF sign = "-" THEN 0 - u ELSE u
    IN Signed((1000 * t + h) * Scale + (IF fraction = "" THEN 0 ELSE Scale \div 2))

\* C16: clean_numeric_value removes every character other than digits, "."
\* and "-" from a str and returns the number the rest stands for, None when
\* the rest is no number: "1,234.50" gives 1234.50, "abc" gives None, None
\* gives None, and an int or a float gives the equal float.
C16_CleanNumeric ==
    cleaned # Pending =>
       /\ \A p \in Prefixes, sign \in Signs, t \in 0..MaxThousands, h \in Hundreds,
             fraction \in Fractions, suffix \in Suffixes :
            val = StrV(AmountText(p, sign, t, h, fraction, suffix))
               => cleaned = FloatV(AmountUnits(sign, t, h, fraction))
       /\ val = StrV("1,234.50") => cleaned = FloatV(1234 * Scale + Scale \div 2)
       /\ val \in {StrV(x) : x \in NoNumberTexts} => cleaned = Null
       /\ val = Null => cleaned = Null
       /\ val.t \in {"int", "float"} => cleaned = FloatV(Units(val))

\* The call has returned 1234.50 for "1,234.50".
C16_Witness ==
    /\ val = StrV("1,234.50")
    /\ cleaned = FloatV(1234 * Scale + Scale \div 2)

\* ------------------------------------------------------------------ properties: partial AI results

\* The AI result holds Sectors with a value that is no dict.
AIHoldsNoSectorMap ==
    /\ ai_results.t = "obj"
    /\ "Sectors" \in DOMAIN ai_results.v
    /\ ai_results.v["Sectors"].t # "obj"

\* C17: extract_combined_budget_info returns a record for every partial AI
\* result; when the AI result holds Sectors with null or another value that is
\* no dict and the keyword extractor found a sector keyword, the record has
\* the number of each sector found under Sectors.
C17_PartialResultReturns ==
    pc = "done" =>
        /\ result.t = "obj"
        /\ AIHoldsNoSectorMap =>
             LET found == extract_numbers_from_text(text, Keywords)
             IN FoundSectors(found) # {} =>
                  /\ "Sectors" \in DOMAIN result.v
                  /\ result.v["Sectors"].t = "obj"
                  /\ \A S \in FoundSectors(found) :
                       /\ S \in DOMAIN result.v["Sectors"].v
                       /\ result.v["Sectors"].v[S] = found[SectorKeyword(S)]

\* ------------------------------------------------------------------ properties: the events

\* The last call was delete_event.
Deleting == event_call # Null /\ event_call.op = "delete_event"

\* The rows of events_before that are the event of the last call and belong
\* to its user.
OwnEvents ==
    {i \in 1..Len(events_before) :
       /\ events_before[i].id = event_call.event_id
       /\ get_user_id(event_call.username) = IntV(events_before[i].user_id)}

\* C18: after any sequence of add_event and delete_event calls,
\* delete_event(username, event_id) returns True exactly when the event was
\* there and belonged to username, and then that row and no other is gone; it
\* returns False and leaves the table as it was when the user is unknown, the
\* event does not exist or the event belongs to another user.
C18_DeletesOwnEventsOnly ==
    Deleting =>
       /\ event_call.returned = BoolV(OwnEvents # {})
       /\ events = SelectSeq(events_before, LAMBDA r : \A i \in OwnEvents : r # events_before[i])
       /\ OwnEvents = {} => events = events_before
       /\ Cardinality(OwnEvents) <= 1

\* A user's delete of another user's event has returned False with the event
\* still there, after an event of the user's own was deleted.
C18_Witness ==
    /\ Deleting
    /\ event_call.returned = BoolV(FALSE)
    /\ \E i \in 1..Len(events) :
         /\ events[i].id = event_call.event_id
         /\ Truthy(get_user_id(event_call.username))
         /\ get_user_id(event_call.username) # IntV(events[i].user_id)
    /\ \E k \in 1..event_seq : \A i \in 1..Len(events) : events[i].id # k

\* ------------------------------------------------------------------ properties: the admin routes

\* C19: a request to /admin/projects/add, /admin/projects/update/<id> or
\* /admin/projects/delete/<id> made without a session user or with a role
\* other than admin leaves the projects table as it was, as a request to the
\* /admin/news add and delete routes leaves the news table.
C19_AdminOnly ==
    (request # Null /\ ~IsAdmin(request.session)) =>
       /\ request.route \in {"/admin/news/add", "/admin/news/delete"} => news = request.news
       /\ request.route \in {"/admin/projects/add", "/admin/projects/update",
                             "/admin/projects/delete"} => projects = request.projects

====
